---- MODULE Spec2Model ----
(***************************************************************************)
(* A model of the swodlr command line client, podaac/swodlr/cli/__main__.py *)
(*                                                                         *)
(* One run of main() is a sequential pipeline: parse_args, the func check, *)
(* earthaccess login, _get_graphql_url, the transport/client construction, *)
(* the removal of the bookkeeping keys, and the command function, which    *)
(* loads its query document, executes it and prints the result.            *)
(*                                                                         *)
(* Strings that the program only passes along (URLs, flag values, names)   *)
(* are TLA+ strings.  Environment keywords, which the program lower-cases, *)
(* are sequences of one-character strings, so that str.lower() is computed.*)
(* An optional value (None or a value) is a sequence of length 0 or 1.     *)
(***************************************************************************)
EXTENDS Naturals, Sequences, FiniteSets

VARIABLES
    argv,       \* the process arguments: [env, cmd, pos, flags]
    environ,    \* os.environ, restricted to the two SWODLR_CLI_* variables
    pc,         \* position in main()
    args,       \* the local `args`: the Namespace, then the stripped dict
    func,       \* the local `func` of main()
    token,      \* the local `token` of main()
    session,    \* the gql.Client: its url and Authorization header
    query,      \* the local `query` of the command function
    results,    \* the local `results` of the command function
    events,     \* the calls made so far, in order, each with its outcome
    requests,   \* what session.execute was called with, in order
    stdout,     \* what was written to standard output, in order
    stderr,     \* what was written to standard error, in order
    raised,     \* the uncaught exception that ended the run, if any
    status,     \* the exit status of the process, once it has ended
    r_env,      \* resolver harness: the `env` argument of _get_graphql_url
    r_out       \* resolver harness: the outcome of the call

vars == <<argv, environ, pc, args, func, token, session, query, results,
          events, requests, stdout, stderr, raised, status, r_env, r_out>>

mainVars == <<argv, pc, args, func, token, session, query, results,
              events, requests, stdout, stderr, raised, status>>

----------------------------------------------------------------------------
(* Optional values *)

None == <<>>

Some(x) == <<x>>

----------------------------------------------------------------------------
(* Bounds of the model *)

\* the largest number of positional arguments after the command name
MaxPos == 2

\* the largest number of optional flags after the command name
MaxFlags == 2

----------------------------------------------------------------------------
(* Environment keywords and str.lower() *)

LowerLetters == <<"a", "d", "i", "o", "p", "r", "s", "t", "u">>

UpperLetters == <<"A", "D", "I", "O", "P", "R", "S", "T", "U">>

OtherChars == {"1", "-"}

Chars == {LowerLetters[i] : i \in 1..Len(LowerLetters)}
         \cup {UpperLetters[i] : i \in 1..Len(UpperLetters)}
         \cup OtherChars

\* str.lower() on one character: an upper-case letter becomes its lower-case
\* letter, every other character is kept
LowerChar(c) ==
    IF \E i \in 1..Len(UpperLetters) : UpperLetters[i] = c
    THEN LowerLetters[CHOOSE i \in 1..Len(UpperLetters) : UpperLetters[i] = c]
    ELSE c

UpperChar(c) ==
    IF \E i \in 1..Len(LowerLetters) : LowerLetters[i] = c
    THEN UpperLetters[CHOOSE i \in 1..Len(LowerLetters) : LowerLetters[i] = c]
    ELSE c

\* str.lower(): character by character
lower(s) == [i \in 1..Len(s) |-> LowerChar(s[i])]

kw_ops == <<"o", "p", "s">>

kw_uat == <<"u", "a", "t">>

kw_sit == <<"s", "i", "t">>

URL_OPS == "https://swodlr.podaac.earthdatacloud.nasa.gov/api/graphql"

URL_UAT == "https://swodlr.podaac.uat.earthdatacloud.nasa.gov/api/graphql"

URL_SIT == "https://swodlr.podaac.sit.earthdatacloud.nasa.gov/api/graphql"

\* the module-level dict: keyword -> literal URL
SWODLR_ENVIRONMENTS ==
    [k \in {kw_ops, kw_uat, kw_sit} |->
        IF k = kw_ops THEN URL_OPS
        ELSE IF k = kw_uat THEN URL_UAT
        ELSE URL_SIT]

\* every spelling of w in upper and lower case letters
CaseVariants(w) ==
    {[i \in 1..Len(w) |-> IF i \in S THEN UpperChar(w[i]) ELSE w[i]] :
        S \in SUBSET (1..Len(w))}

\* keywords that name no environment: unknown words, the empty string, a
\* prefix, an extension and near misses of the known keywords
OtherWords ==
    {<<"p", "r", "o", "d">>, <<"d", "i", "t">>, <<>>, <<"o", "p">>,
     <<"o", "p", "s", "1">>, <<"u", "a", "t", "-", "1">>, <<"s", "-", "t">>}

\* the keywords the resolver is called with
Keywords ==
    UNION {CaseVariants(w) : w \in {kw_ops, kw_uat, kw_sit} \cup OtherWords}

\* the values of SWODLR_CLI_URL: a known URL, other strings, the empty string
UrlValues == {URL_SIT, "http://x", "not a url", ""}

----------------------------------------------------------------------------
(* _get_graphql_url and its outcomes *)

Return(v) == <<"return", v>>

\* RuntimeError(f'Invalid environment: {venue}'); venue is None or a keyword
InvalidEnvironment(venue) == <<"raise", "RuntimeError", "Invalid environment", venue>>

\* mutants of _get_graphql_url: plausible slips of the resolver

\* the keyword is validated before the URL override is looked at
get_graphql_url_validate_first(env_vars, env) ==
    LET venue == IF env_vars.SWODLR_CLI_ENV # None
                 THEN env_vars.SWODLR_CLI_ENV ELSE env
    IN  IF venue = None THEN InvalidEnvironment(None)
        ELSE IF lower(venue[1]) \notin DOMAIN SWODLR_ENVIRONMENTS
        THEN InvalidEnvironment(Some(lower(venue[1])))
        ELSE IF env_vars.SWODLR_CLI_URL # None
        THEN Return(env_vars.SWODLR_CLI_URL[1])
        ELSE Return(SWODLR_ENVIRONMENTS[lower(venue[1])])

\* the keyword is looked up as given, without lower-casing it
get_graphql_url_no_lower(env_vars, env) ==
    IF env_vars.SWODLR_CLI_URL # None
    THEN Return(env_vars.SWODLR_CLI_URL[1])
    ELSE LET venue == IF env_vars.SWODLR_CLI_ENV # None
                      THEN env_vars.SWODLR_CLI_ENV ELSE env
         IN  IF venue = None THEN InvalidEnvironment(None)
             ELSE IF venue[1] \notin DOMAIN SWODLR_ENVIRONMENTS
             THEN InvalidEnvironment(venue)
             ELSE Return(SWODLR_ENVIRONMENTS[venue[1]])

\* an unknown keyword falls back to the default environment
get_graphql_url_fallback(env_vars, env) ==
    IF env_vars.SWODLR_CLI_URL # None
    THEN Return(env_vars.SWODLR_CLI_URL[1])
    ELSE LET venue == IF env_vars.SWODLR_CLI_ENV # None
                      THEN env_vars.SWODLR_CLI_ENV ELSE env
         IN  IF venue = None THEN Return(URL_OPS)
             ELSE IF lower(venue[1]) \notin DOMAIN SWODLR_ENVIRONMENTS
             THEN Return(URL_OPS)
             ELSE Return(SWODLR_ENVIRONMENTS[lower(venue[1])])

\* _get_graphql_url(env): env_vars is os.environ, env the optional argument
_get_graphql_url(env_vars, env) ==
    IF env_vars.SWODLR_CLI_URL # None
    THEN Return(env_vars.SWODLR_CLI_URL[1])
    ELSE LET venue == IF env_vars.SWODLR_CLI_ENV # None
                      THEN env_vars.SWODLR_CLI_ENV ELSE env
         IN  IF venue = None THEN InvalidEnvironment(None)
             ELSE IF lower(venue[1]) \notin DOMAIN SWODLR_ENVIRONMENTS
             THEN InvalidEnvironment(Some(lower(venue[1])))
             ELSE Return(SWODLR_ENVIRONMENTS[lower(venue[1])])

----------------------------------------------------------------------------
(* The argument parser built in main() and parser.parse_args() *)

GET_USERS_PRODUCTS == "get-users-products"

INVALIDATE_PRODUCT == "invalidate-product"

SEARCH_PRODUCTS == "search-products"

\* the names given to subparsers.add_parser
Commands == {GET_USERS_PRODUCTS, INVALIDATE_PRODUCT, SEARCH_PRODUCTS}

\* first positional arguments that name no subparser
UnknownCommands == {"list-products", "search_products"}

\* the filters shared by get-users-products and search-products
FilterFlags ==
    {"cycle", "pass", "scene", "output-granule-extent-flag",
     "output-sampling-grid-type", "raster-resolution", "utm-zone-adjust",
     "mgrs-band-adjust"}

\* the optional flags (without the leading --) added to each subparser
Optionals(cmd) ==
    IF cmd = GET_USERS_PRODUCTS
    THEN FilterFlags \cup {"before-timestamp", "after-timestamp", "after-id", "limit"}
    ELSE IF cmd = INVALIDATE_PRODUCT
    THEN {"limit"}
    ELSE FilterFlags \cup {"after-id"}

\* the positional arguments added to each subparser, in order
Positionals(cmd) ==
    IF cmd = GET_USERS_PRODUCTS THEN <<"username">>
    ELSE IF cmd = INVALIDATE_PRODUCT THEN <<"id">>
    ELSE <<>>

\* the function set_defaults(func=...) binds to each subparser
FuncOf(cmd) ==
    IF cmd = GET_USERS_PRODUCTS THEN "get_users_products"
    ELSE IF cmd = INVALIDATE_PRODUCT THEN "invalidate_product"
    ELSE "search_products"

\* every flag name some subparser knows
FlagNames == UNION {Optionals(c) : c \in Commands}

\* argparse's dest of an option string: the hyphens become underscores
Dest(flag) ==
    CASE flag = "output-granule-extent-flag" -> "output_granule_extent_flag"
      [] flag = "output-sampling-grid-type" -> "output_sampling_grid_type"
      [] flag = "raster-resolution" -> "raster_resolution"
      [] flag = "utm-zone-adjust" -> "utm_zone_adjust"
      [] flag = "mgrs-band-adjust" -> "mgrs_band_adjust"
      [] flag = "before-timestamp" -> "before_timestamp"
      [] flag = "after-timestamp" -> "after_timestamp"
      [] flag = "after-id" -> "after_id"
      [] OTHER -> flag

\* values of the Namespace: a string from the command line, the integer
\* default 10, None, or the function bound by set_defaults
StrVal(s) == <<"str", s>>

IntVal10 == <<"int", "10">>

NoneVal == <<"NoneType">>

FuncVal(f) == <<"function", f>>

\* the default of an optional flag of a subparser
DefaultOf(cmd, flag) == IF flag = "limit" THEN IntVal10 ELSE NoneVal

\* the process exits with status 2 after usage and the message on stderr
ParseError(msg) == [kind |-> "error", msg |-> msg]

\* -h/--help: the help of parser prog on stdout, then exit status 0
ParseHelp(prog) == [kind |-> "help", prog |-> prog]

ParseOk(ns) == [kind |-> "ok", ns |-> ns]

\* argparse accepts an unambiguous prefix of an option string; the prefixes
\* the command lines of the model use, each with the option strings it starts
PrefixPairs == {<<"lim", "limit">>}

\* the options of subparser cmd that the flag string f selects: the option
\* spelled in full, else every option f is a prefix of
Matches(cmd, f) ==
    IF f \in Optionals(cmd) THEN {f}
    ELSE {o \in Optionals(cmd) : <<f, o>> \in PrefixPairs}

\* the flags of the command line that select no option of the subparser
UnknownFlags(a) == {f \in DOMAIN a.flags : Matches(a.cmd[1], f) = {}}

\* the Namespace of a run without subcommand: only the global --env
TopNamespace(a) ==
    [k \in {"env"} |-> IF a.env = None THEN StrVal(kw_ops) ELSE StrVal(a.env[1])]

\* the Namespace of a run of subcommand a.cmd[1], whose arguments fit
SubNamespace(a) ==
    LET cmd  == a.cmd[1]
        posn == Positionals(cmd)
        posKeys == {posn[i] : i \in 1..Len(posn)}
        optKeys == {Dest(f) : f \in Optionals(cmd)}
    IN  [k \in {"env", "func"} \cup posKeys \cup optKeys |->
            IF k = "env" THEN TopNamespace(a)["env"]
            ELSE IF k = "func" THEN FuncVal(FuncOf(cmd))
            ELSE IF k \in posKeys
            THEN StrVal(a.pos[CHOOSE i \in 1..Len(posn) : posn[i] = k])
            ELSE LET o == CHOOSE o \in Optionals(cmd) : Dest(o) = k
                     given == {f \in DOMAIN a.flags : o \in Matches(cmd, f)}
                 IN  IF given # {} THEN StrVal(a.flags[CHOOSE f \in given : TRUE])
                     ELSE DefaultOf(cmd, o)]

\* what the subparser of a.cmd[1] makes of its arguments.  The value of a
\* flag it does not know is left as a positional argument: it fills a missing
\* positional, and the flag itself is reported as unrecognized.
parse_sub(a) ==
    LET n == Len(a.pos) + Cardinality(UnknownFlags(a))
    IN  IF n < Len(Positionals(a.cmd[1]))
        THEN ParseError("the following arguments are required")
        ELSE IF UnknownFlags(a) # {} \/ n > Len(Positionals(a.cmd[1]))
        THEN ParseError("unrecognized arguments")
        ELSE ParseOk(SubNamespace(a))

\* mutant: a first positional that names no subparser is taken as no command
parse_args_unknown_is_none(a) ==
    IF a.help = "top"
    THEN ParseHelp("swodlr")
    ELSE IF a.cmd = None \/ a.cmd[1] \notin Commands
    THEN IF a.cmd = None /\ DOMAIN a.flags # {}
         THEN ParseError("invalid choice")
         ELSE ParseOk(TopNamespace(a))
    ELSE IF a.help = "sub"
    THEN ParseHelp(a.cmd[1])
    ELSE parse_sub(a)

\* parser.parse_args() on the process arguments a.  The arguments are taken
\* in order: -h before the command name ends the run with the help of the
\* top parser; without a command name the value of a stray flag is taken as
\* the command name and is no choice; -h after a command name ends the run
\* with the help of its subparser, whatever else follows the name.
parse_args(a) ==
    IF a.help = "top"
    THEN ParseHelp("swodlr")
    ELSE IF a.cmd = None
    THEN IF DOMAIN a.flags # {}
         THEN ParseError("invalid choice")
         ELSE ParseOk(TopNamespace(a))
    ELSE IF a.cmd[1] \notin Commands
    THEN ParseError("invalid choice")
    ELSE IF a.help = "sub"
    THEN ParseHelp(a.cmd[1])
    ELSE parse_sub(a)

----------------------------------------------------------------------------
(* The inputs of a run *)

\* --env values given on the command line
ArgKeywords == {<<"U", "A", "T">>, <<"P", "r", "o", "d">>}

\* SWODLR_CLI_ENV values of a run of main()
EnvKeywords == {<<"S", "i", "t">>, <<"d", "i", "t">>}

\* values of the positional arguments
PosValues == {"alice", "42"}

\* values of the optional flags
FlagValues == {"5", "x"}

\* the flags a command line of the model may carry: a shared filter, a
\* hyphenated one, one only get-users-products knows, after-id, limit, and
\* limit abbreviated
ArgFlags ==
    {"cycle", "output-granule-extent-flag", "before-timestamp",
     "after-id", "limit", "lim"}

SeqsUpTo(S, n) == UNION {[1..k -> S] : k \in 0..n}

FlagMaps ==
    UNION {[T -> FlagValues] :
              T \in {U \in SUBSET ArgFlags : Cardinality(U) <= MaxFlags}}

\* where -h is given: nowhere, before the command name ("top") or after it
HelpPlaces == {"no", "top", "sub"}

\* swodlr [--env E] [-h] [cmd [-h] pos... --flag value ...]
\* No option is given twice (the later one would win, and flags keeps no
\* order), so limit and its abbreviation do not occur together.
ArgvSet ==
    {a \in [env : {None} \cup {Some(k) : k \in ArgKeywords},
            help : HelpPlaces,
            cmd : {None} \cup {Some(c) : c \in Commands \cup UnknownCommands},
            pos : SeqsUpTo(PosValues, MaxPos),
            flags : FlagMaps] :
        /\ a.cmd = None => a.pos = <<>> /\ a.help # "sub"
        /\ ~({"lim", "limit"} \subseteq DOMAIN a.flags)}

EnvironSet ==
    [SWODLR_CLI_URL : {None, Some("http://x")},
     SWODLR_CLI_ENV : {None} \cup {Some(k) : k \in EnvKeywords}]

\* what earthaccess login() may do: raise, or return an object whose token
\* is None (not authenticated) or a mapping holding the access token
LoginOutcomes == {<<"raise">>, <<"token", None>>, <<"token", Some("t0k3n")>>}

----------------------------------------------------------------------------
(* main() *)

EmptyDict == [k \in {} |-> NoneVal]

\* an uncaught exception: traceback on stderr, exit status 1
Abort(exc) ==
    /\ raised' = Some(exc)
    /\ stderr' = Append(stderr, <<"Traceback", exc[2]>>)
    /\ status' = Some(1)
    /\ pc' = "exit"

\* args = parser.parse_args(); argparse exits with status 2 on an error and
\* with status 0 after printing the help asked for with -h
ParseArgs ==
    /\ pc = "parse_args"
    /\ LET r == parse_args(argv)
       IN  IF r.kind = "ok"
           THEN /\ args' = r.ns
                /\ events' = Append(events, <<"parse_args", "ok">>)
                /\ pc' = "check_func"
                /\ UNCHANGED <<stdout, stderr, status>>
           ELSE IF r.kind = "help"
           THEN /\ stdout' = Append(stdout, <<"help", r.prog>>)
                /\ events' = Append(events, <<"parse_args", "exit">>)
                /\ status' = Some(0)
                /\ pc' = "exit"
                /\ UNCHANGED <<args, stderr>>
           ELSE /\ stderr' = Append(stderr, <<"usage", r.msg>>)
                /\ events' = Append(events, <<"parse_args", "exit">>)
                /\ status' = Some(2)
                /\ pc' = "exit"
                /\ UNCHANGED <<args, stdout>>
    /\ UNCHANGED <<argv, environ, func, token, session, query, results,
                   requests, raised, r_env, r_out>>

\* mutant: the help is printed but main() does not return
CheckFuncNoReturn ==
    /\ pc = "check_func"
    /\ IF "func" \notin DOMAIN args
       THEN /\ stdout' = Append(stdout, <<"help", "swodlr">>)
            /\ events' = Append(events, <<"print_help", "ok">>)
       ELSE UNCHANGED <<stdout, events>>
    /\ pc' = "login"
    /\ UNCHANGED <<argv, environ, args, func, token, session, query, results,
                   requests, stderr, raised, status, r_env, r_out>>

\* if not hasattr(args, 'func'): parser.print_help(); return
CheckFunc ==
    /\ pc = "check_func"
    /\ IF "func" \notin DOMAIN args
       THEN /\ stdout' = Append(stdout, <<"help", "swodlr">>)
            /\ events' = Append(events, <<"print_help", "ok">>)
            /\ status' = Some(0)
            /\ pc' = "exit"
       ELSE /\ pc' = "login"
            /\ UNCHANGED <<stdout, events, status>>
    /\ UNCHANGED <<argv, environ, args, func, token, session, query, results,
                   requests, stderr, raised, r_env, r_out>>

\* token = earthaccessapi.login().token
Login ==
    /\ pc = "login"
    /\ \E o \in LoginOutcomes :
          IF o[1] = "raise"
          THEN /\ events' = Append(events, <<"login", "raise">>)
               /\ Abort(<<"raise", "LoginError", "login failed", None>>)
               /\ UNCHANGED token
          ELSE /\ events' = Append(events,
                      <<"login", IF o[2] = None THEN "no_token" ELSE "ok">>)
               /\ token' = o[2]
               /\ pc' = "configure_client"
               /\ UNCHANGED <<raised, stderr, status>>
    /\ UNCHANGED <<argv, environ, args, func, session, query, results,
                   requests, stdout, r_env, r_out>>

\* transport = AIOHTTPTransport(url=_get_graphql_url(args.env),
\*     headers={'Authorization': f'Bearer {token['access_token']}'})
\* session = gql.Client(transport=transport)
\* The url is evaluated first, then the header, which subscripts the token.
ConfigureClient ==
    /\ pc = "configure_client"
    /\ LET r == _get_graphql_url(environ, Some(args["env"][2]))
       IN  IF r[1] = "raise"
           THEN /\ events' = Append(events, <<"_get_graphql_url", "raise">>)
                /\ Abort(r)
                /\ UNCHANGED session
           ELSE /\ events' = Append(events, <<"_get_graphql_url", "ok">>)
                /\ IF token = None
                   THEN /\ Abort(<<"raise", "TypeError",
                                   "'NoneType' object is not subscriptable", None>>)
                        /\ UNCHANGED session
                   ELSE /\ session' = Some([url |-> r[2],
                                            Authorization |-> <<"Bearer", token[1]>>])
                        /\ pc' = "strip"
                        /\ UNCHANGED <<raised, stderr, status>>
    /\ UNCHANGED <<argv, environ, args, func, token, query, results,
                   requests, stdout, r_env, r_out>>

\* mutant: only func is removed, env stays in the dict
strip_keep_env(ns) == [k \in DOMAIN ns \ {"func"} |-> ns[k]]

\* for key in ['func', 'env']: if key in args: del args[key]
strip(ns) == [k \in DOMAIN ns \ {"func", "env"} |-> ns[k]]

\* func = args.func; args = vars(args); the bookkeeping keys are removed
StripArgs ==
    /\ pc = "strip"
    /\ func' = Some(args["func"][2])
    /\ args' = strip(args)
    /\ pc' = "call"
    /\ UNCHANGED <<argv, environ, token, session, query, results, events,
                   requests, stdout, stderr, raised, status, r_env, r_out>>

----------------------------------------------------------------------------
(* The command functions and _load_graphql_query *)

\* resources.files().joinpath('graphql-documents', f'{name}.graphql')
DocumentPath(name) == <<"graphql-documents", name, ".graphql">>

\* query = _load_graphql_query(name): the document is a file of the package
\* or it is not
LoadQuery(name) ==
    /\ pc = "call"
    /\ \E is_file \in BOOLEAN :
          IF is_file
          THEN /\ query' = Some(DocumentPath(name))
               /\ events' = Append(events, <<"_load_graphql_query", "ok">>)
               /\ pc' = "execute"
               /\ UNCHANGED <<raised, stderr, status>>
          ELSE /\ events' = Append(events, <<"_load_graphql_query", "raise">>)
               /\ Abort(<<"raise", "RuntimeError", "GraphQL document not found",
                          DocumentPath(name)>>)
               /\ UNCHANGED query
    /\ UNCHANGED <<argv, environ, args, func, token, session, results,
                   requests, stdout, r_env, r_out>>

\* mutant: a failed request is sent again
ExecuteRetry ==
    /\ pc = "execute"
    /\ requests' = Append(requests, [url |-> session[1].url,
                                     Authorization |-> session[1].Authorization,
                                     query |-> query[1],
                                     variable_values |-> args])
    /\ \E returns \in BOOLEAN :
          IF returns
          THEN /\ results' = Some(<<"response", query[1]>>)
               /\ events' = Append(events, <<"execute", "ok">>)
               /\ pc' = "print"
               /\ UNCHANGED <<raised, stderr, status>>
          ELSE /\ events' = Append(events, <<"execute", "raise">>)
               /\ IF Len(requests) < 1
                  THEN UNCHANGED <<pc, raised, stderr, status>>
                  ELSE Abort(<<"raise", "TransportError", "request failed", None>>)
               /\ UNCHANGED results
    /\ UNCHANGED <<argv, environ, args, func, token, session, query,
                   stdout, r_env, r_out>>

\* mutant: a failed request is caught and its error is printed as the result
ExecuteSwallow ==
    /\ pc = "execute"
    /\ requests' = Append(requests, [url |-> session[1].url,
                                     Authorization |-> session[1].Authorization,
                                     query |-> query[1],
                                     variable_values |-> args])
    /\ \E returns \in BOOLEAN :
          /\ results' = Some(<<IF returns THEN "response" ELSE "error", query[1]>>)
          /\ events' = Append(events, <<"execute", IF returns THEN "ok" ELSE "raise">>)
          /\ pc' = "print"
          /\ UNCHANGED <<raised, stderr, status>>
    /\ UNCHANGED <<argv, environ, args, func, token, session, query,
                   stdout, r_env, r_out>>

\* results = session.execute(query, variable_values=args): one request,
\* which returns the decoded response or raises
Execute ==
    /\ pc = "execute"
    /\ requests' = Append(requests, [url |-> session[1].url,
                                     Authorization |-> session[1].Authorization,
                                     query |-> query[1],
                                     variable_values |-> args])
    /\ \E returns \in BOOLEAN :
          IF returns
          THEN /\ results' = Some(<<"response", query[1]>>)
               /\ events' = Append(events, <<"execute", "ok">>)
               /\ pc' = "print"
               /\ UNCHANGED <<raised, stderr, status>>
          ELSE /\ events' = Append(events, <<"execute", "raise">>)
               /\ Abort(<<"raise", "TransportError", "request failed", None>>)
               /\ UNCHANGED results
    /\ UNCHANGED <<argv, environ, args, func, token, session, query,
                   stdout, r_env, r_out>>

\* print(json.dumps(results, indent=2)); the function and main() return
PrintResults ==
    /\ pc = "print"
    /\ stdout' = Append(stdout, <<"json", results[1]>>)
    /\ events' = Append(events, <<"print", "ok">>)
    /\ status' = Some(0)
    /\ pc' = "exit"
    /\ UNCHANGED <<argv, environ, args, func, token, session, query, results,
                   requests, stderr, raised, r_env, r_out>>

\* def get_users_products(session, args)
get_users_products ==
    /\ func = Some("get_users_products")
    /\ (LoadQuery("get_users_products") \/ Execute \/ PrintResults)

\* def invalidate_product(session, args)
invalidate_product ==
    /\ func = Some("invalidate_product")
    /\ (LoadQuery("invalidate_product") \/ Execute \/ PrintResults)

\* def search_products(session, args)
search_products ==
    /\ func = Some("search_products")
    /\ (LoadQuery("search_products") \/ Execute \/ PrintResults)

----------------------------------------------------------------------------
(* One run of main() *)

Init ==
    /\ argv \in ArgvSet
    /\ environ \in EnvironSet
    /\ pc = "parse_args"
    /\ args = EmptyDict
    /\ func = None
    /\ token = None
    /\ session = None
    /\ query = None
    /\ results = None
    /\ events = <<>>
    /\ requests = <<>>
    /\ stdout = <<>>
    /\ stderr = <<>>
    /\ raised = None
    /\ status = None
    /\ r_env = None
    /\ r_out = None

Next ==
    \/ ParseArgs
    \/ CheckFunc
    \/ Login
    \/ ConfigureClient
    \/ StripArgs
    \/ get_users_products
    \/ invalidate_product
    \/ search_products

Spec == Init /\ [][Next]_vars

----------------------------------------------------------------------------
(* _get_graphql_url on its own: every combination of the two environment   *)
(* variables and the argument                                              *)

ResolverInit ==
    /\ environ \in [SWODLR_CLI_URL : {None} \cup {Some(u) : u \in UrlValues},
                    SWODLR_CLI_ENV : {None} \cup {Some(k) : k \in Keywords}]
    /\ r_env \in {None} \cup {Some(k) : k \in Keywords}
    /\ r_out = None
    /\ argv = [env |-> None, help |-> "no", cmd |-> None, pos |-> <<>>,
               flags |-> EmptyDict]
    /\ pc = "resolver"
    /\ args = EmptyDict
    /\ func = None
    /\ token = None
    /\ session = None
    /\ query = None
    /\ results = None
    /\ events = <<>>
    /\ requests = <<>>
    /\ stdout = <<>>
    /\ stderr = <<>>
    /\ raised = None
    /\ status = None

CallResolver ==
    /\ pc = "resolver"
    /\ r_out = None
    /\ r_out' = Some(_get_graphql_url(environ, r_env))
    /\ UNCHANGED <<environ, r_env>>
    /\ UNCHANGED mainVars

ResolverNext == CallResolver

SpecResolver == ResolverInit /\ [][ResolverNext]_vars

----------------------------------------------------------------------------
(* Vocabulary of the properties *)

Done == pc = "exit"

\* the run names one of the three subcommands
Recognized == argv.cmd # None /\ argv.cmd[1] \in Commands

\* parse_args returned a Namespace of a subcommand
ParsedCommand == Recognized /\ events # <<>> /\ events[1] = <<"parse_args", "ok">>

Called(name) == \E i \in 1..Len(events) : events[i][1] = name

Count(ev) == Cardinality({i \in 1..Len(events) : events[i] = ev})

\* ev occurs in the log before position i
Before(ev, i) == \E j \in 1..(i - 1) : events[j] = ev

\* every spelling, in any letter case, of ops, uat and sit
KnownSpellings == UNION {CaseVariants(k) : k \in {kw_ops, kw_uat, kw_sit}}

\* the effective keyword of a call: SWODLR_CLI_ENV if set, else the argument
Effective(env) ==
    IF environ.SWODLR_CLI_ENV # None THEN environ.SWODLR_CLI_ENV ELSE env

\* the --env value main() passes: the one given, or the default 'ops'
EnvOfRun == IF argv.env = None THEN Some(kw_ops) ELSE argv.env

\* no URL override, and the effective keyword names no environment
Unresolvable(env) ==
    /\ environ.SWODLR_CLI_URL = None
    /\ Effective(env) = None \/ Effective(env)[1] \notin KnownSpellings

----------------------------------------------------------------------------
(* C1 *)

\* C1, as stated: in a run with a recognized subcommand whose environment
\* cannot be resolved, earthaccess login is never called.
C1_AbortBeforeLogin ==
    (ParsedCommand /\ Unresolvable(EnvOfRun)) => ~Called("login")

\* C1, amended: in a run with a recognized subcommand whose environment
\* cannot be resolved, login is called first and exactly once; the resolver is
\* entered only after login has returned; the run then ends with exit status 1,
\* with the invalid-environment error unless login itself raised, and no query
\* document is loaded, no request is sent and nothing is printed.
C1_AbortAfterLogin ==
    (ParsedCommand /\ Unresolvable(EnvOfRun)) =>
        /\ \A i \in 1..Len(events) :
              events[i][1] = "_get_graphql_url" =>
                  /\ events[i] = <<"_get_graphql_url", "raise">>
                  /\ Before(<<"login", "ok">>, i) \/ Before(<<"login", "no_token">>, i)
        /\ ~Called("_load_graphql_query")
        /\ ~Called("execute")
        /\ requests = <<>>
        /\ stdout = <<>>
        /\ pc \notin {"strip", "call", "execute", "print"}
        /\ Done =>
              /\ Cardinality({i \in 1..Len(events) : events[i][1] = "login"}) = 1
              /\ status = Some(1)
              /\ raised # None
              /\ Count(<<"login", "raise">>) = 0 =>
                    /\ raised[1][3] = "Invalid environment"
                    /\ events[Len(events)] = <<"_get_graphql_url", "raise">>

C1_Witness ==
    /\ Done
    /\ ParsedCommand
    /\ Unresolvable(EnvOfRun)
    /\ events = <<<<"parse_args", "ok">>, <<"login", "ok">>,
                  <<"_get_graphql_url", "raise">>>>
    /\ raised = Some(InvalidEnvironment(Some(<<"p", "r", "o", "d">>)))

----------------------------------------------------------------------------
(* C2 - C4: the resolver *)

\* C2: whenever SWODLR_CLI_URL is set, the resolver returns exactly that
\* string and raises nothing, whatever SWODLR_CLI_ENV and the argument are.
C2_UrlOverride ==
    (r_out # None /\ environ.SWODLR_CLI_URL # None) =>
        r_out[1] = <<"return", environ.SWODLR_CLI_URL[1]>>

C2_Witness ==
    /\ r_out = Some(<<"return", "not a url">>)
    /\ environ.SWODLR_CLI_ENV = Some(<<"p", "r", "o", "d">>)
    /\ r_env = None

\* C3: with SWODLR_CLI_URL unset, the effective keyword is SWODLR_CLI_ENV if
\* set and the argument otherwise, and every spelling of ops, uat or sit, in
\* any letter case, yields the literal URL of that environment.
C3_KnownKeyword ==
    (r_out # None /\ environ.SWODLR_CLI_URL = None /\ Effective(r_env) # None) =>
        /\ Effective(r_env)[1] \in CaseVariants(kw_ops) =>
              r_out[1] = <<"return",
                  "https://swodlr.podaac.earthdatacloud.nasa.gov/api/graphql">>
        /\ Effective(r_env)[1] \in CaseVariants(kw_uat) =>
              r_out[1] = <<"return",
                  "https://swodlr.podaac.uat.earthdatacloud.nasa.gov/api/graphql">>
        /\ Effective(r_env)[1] \in CaseVariants(kw_sit) =>
              r_out[1] = <<"return",
                  "https://swodlr.podaac.sit.earthdatacloud.nasa.gov/api/graphql">>

C3_Witness ==
    /\ r_out = Some(<<"return", URL_UAT>>)
    /\ environ.SWODLR_CLI_URL = None
    /\ environ.SWODLR_CLI_ENV = Some(<<"U", "a", "T">>)
    /\ r_env = Some(<<"s", "i", "t">>)

\* C4: with SWODLR_CLI_URL unset and the effective keyword absent or not a
\* spelling of ops, uat or sit, the resolver raises the invalid-environment
\* error and returns no URL; every call ends either in one URL returned or in
\* that error raised.
C4_InvalidEnvironment ==
    r_out # None =>
        /\ \/ /\ r_out[1][1] = "return"
              /\ Len(r_out[1]) = 2
              /\ r_out[1][2] \in UrlValues \cup {URL_OPS, URL_UAT, URL_SIT}
           \/ /\ r_out[1][1] = "raise"
              /\ Len(r_out[1]) = 4
              /\ r_out[1][3] = "Invalid environment"
        /\ Unresolvable(r_env) => r_out[1][1] = "raise"

C4_Witness ==
    /\ r_out = Some(InvalidEnvironment(Some(<<"p", "r", "o", "d">>)))
    /\ environ.SWODLR_CLI_ENV = Some(<<"P", "r", "o", "d">>)
    /\ r_env = Some(<<"o", "p", "s">>)

----------------------------------------------------------------------------
(* C5 *)

\* C5: a run without subcommand (with or without -h), whatever --env and the
\* environment variables are, prints the usage text of the program and ends
\* with status 0; it never calls login, the resolver, the query loader or
\* session.execute.
C5_NoSubcommand ==
    (argv.cmd = None /\ DOMAIN argv.flags = {}) =>
        /\ ~Called("login")
        /\ ~Called("_get_graphql_url")
        /\ ~Called("_load_graphql_query")
        /\ ~Called("execute")
        /\ requests = <<>>
        /\ token = None /\ session = None /\ query = None
        /\ Done =>
              /\ stdout = <<<<"help", "swodlr">>>>
              /\ status = Some(0)
              /\ raised = None

C5_Witness ==
    /\ Done
    /\ argv.cmd = None
    /\ DOMAIN argv.flags = {}
    /\ argv.env = Some(<<"P", "r", "o", "d">>)
    /\ environ.SWODLR_CLI_ENV = Some(<<"d", "i", "t">>)
    /\ stdout = <<<<"help", "swodlr">>>>

----------------------------------------------------------------------------
(* C6 *)

\* the option a flag of the command line stands for: itself, or the option it
\* abbreviates
FullName(f) == IF f = "lim" THEN "limit" ELSE f

\* C6: the variables passed to session.execute are the parsed parameters
\* without func and env: neither key is ever sent, every flag and positional
\* given on the command line is sent under the name of its parameter with its
\* value unchanged, and every other parameter of the command is sent with
\* its default.
C6_VariablesRoundTrip ==
    \A i \in 1..Len(requests) :
        LET v   == requests[i].variable_values
            cmd == argv.cmd[1]
            ns  == parse_args(argv).ns
        IN  /\ "func" \notin DOMAIN v
            /\ "env" \notin DOMAIN v
            /\ v = [k \in DOMAIN ns \ {"func", "env"} |-> ns[k]]
            /\ \A f \in DOMAIN argv.flags :
                  /\ Dest(FullName(f)) \in DOMAIN v
                  /\ v[Dest(FullName(f))] = <<"str", argv.flags[f]>>
            /\ \A j \in 1..Len(argv.pos) :
                  v[Positionals(cmd)[j]] = <<"str", argv.pos[j]>>
            /\ \A o \in Optionals(cmd) \ {FullName(f) : f \in DOMAIN argv.flags} :
                  v[Dest(o)] = DefaultOf(cmd, o)

C6_Witness ==
    /\ Len(requests) = 1
    /\ argv.cmd = Some(GET_USERS_PRODUCTS)
    /\ argv.env # None
    /\ argv.pos = <<"alice">>
    /\ DOMAIN argv.flags = {"limit", "output-granule-extent-flag"}
    /\ requests[1].variable_values["username"] = <<"str", "alice">>
    /\ requests[1].variable_values["limit"] = <<"str", "5">>
    /\ requests[1].variable_values["output_granule_extent_flag"] = <<"str", "x">>

----------------------------------------------------------------------------
(* C7 *)

\* C7: search-products accepts an optional --limit without default: with
\* --limit v parsing succeeds and the variables carry limit = v, without it
\* limit is absent or None; get-users-products and invalidate-product carry
\* limit = 10 when --limit is omitted.
C7_SearchProductsLimit ==
    /\ (/\ argv.cmd = Some(SEARCH_PRODUCTS)
        /\ argv.help = "no"
        /\ argv.pos = <<>>
        /\ DOMAIN argv.flags \subseteq FilterFlags \cup {"after-id", "limit"}
        /\ pc # "parse_args") =>
            /\ events[1] = <<"parse_args", "ok">>
            /\ \A i \in 1..Len(requests) :
                  LET v == requests[i].variable_values
                  IN  IF "limit" \in DOMAIN argv.flags
                      THEN "limit" \in DOMAIN v
                           /\ v["limit"] = <<"str", argv.flags["limit"]>>
                      ELSE "limit" \notin DOMAIN v \/ v["limit"] = NoneVal
    /\ (/\ argv.cmd \in {Some(GET_USERS_PRODUCTS), Some(INVALIDATE_PRODUCT)}
        /\ "limit" \notin DOMAIN argv.flags) =>
            \A i \in 1..Len(requests) :
                requests[i].variable_values["limit"] = IntVal10

----------------------------------------------------------------------------
(* C8 *)

\* C8, as stated: a first positional argument that names no command makes the
\* program print usage and end with success, without login or request.
C8_UnknownCommandSucceeds ==
    (argv.cmd # None /\ argv.cmd[1] \notin Commands /\ Done) =>
        /\ status = Some(0)
        /\ stdout # <<>> \/ stderr # <<>>
        /\ ~Called("login")
        /\ requests = <<>>

\* C8, amended: a first positional argument that names no command, with no
\* -h before it, makes the program print usage and an invalid-choice message
\* on standard error and end with exit status 2, without login, resolution,
\* loading or request, and with nothing on standard output.
C8_UnknownCommandExits2 ==
    (argv.cmd # None /\ argv.cmd[1] \notin Commands /\ argv.help # "top") =>
        /\ ~Called("login")
        /\ ~Called("_get_graphql_url")
        /\ ~Called("_load_graphql_query")
        /\ ~Called("execute")
        /\ requests = <<>>
        /\ stdout = <<>>
        /\ pc \in {"parse_args", "exit"}
        /\ Done =>
              /\ status = Some(2)
              /\ stderr = <<<<"usage", "invalid choice">>>>
              /\ raised = None

C8_Witness ==
    /\ Done
    /\ argv.cmd = Some("list-products")
    /\ argv.help = "sub"
    /\ status = Some(2)
    /\ stderr = <<<<"usage", "invalid choice">>>>

----------------------------------------------------------------------------
(* C9 *)

\* C9: session.execute is called at most once and never again after a
\* failure; it is called only after login has returned a token and the query
\* document has been loaded; a failed login or a missing document (an error
\* naming the path) ends the run with no request; a run of a subcommand in
\* which every step succeeds has sent exactly one.
C9_SingleRequest ==
    /\ Len(requests) <= 1
    /\ Len(requests) =
          Cardinality({i \in 1..Len(events) : events[i][1] = "execute"})
    /\ \A i \in 1..Len(events) :
          /\ events[i][1] = "execute" =>
                /\ Before(<<"login", "ok">>, i)
                /\ Before(<<"_load_graphql_query", "ok">>, i)
          /\ events[i] = <<"execute", "raise">> => i = Len(events) /\ Done
    /\ (Count(<<"login", "raise">>) + Count(<<"login", "no_token">>) > 0) =>
          /\ requests = <<>>
          /\ Done => status = Some(1)
    /\ Count(<<"_load_graphql_query", "raise">>) > 0 =>
          /\ requests = <<>>
          /\ Done
          /\ status = Some(1)
          /\ raised = Some(<<"raise", "RuntimeError", "GraphQL document not found",
                             <<"graphql-documents", func[1], ".graphql">>>>)
    /\ (Done /\ ParsedCommand /\ status = Some(0)) => Len(requests) = 1

C9_Witness ==
    /\ Done
    /\ status = Some(0)
    /\ Len(requests) = 1
    /\ events = <<<<"parse_args", "ok">>, <<"login", "ok">>,
                  <<"_get_graphql_url", "ok">>, <<"_load_graphql_query", "ok">>,
                  <<"execute", "ok">>, <<"print", "ok">>>>

----------------------------------------------------------------------------
(* C10 *)

\* C10: in a run with a recognized subcommand the JSON result is written to
\* standard output only after session.execute has returned, in full and once;
\* if resolution, login, loading or the request fails, nothing is written to
\* standard output and the process ends with an error status.
C10_NoPartialOutput ==
    Recognized =>
        LET json == {i \in 1..Len(stdout) : stdout[i][1] = "json"}
        IN  /\ Cardinality(json) <= 1
            /\ json # {} =>
                  /\ results # None
                  /\ stdout = <<<<"json", results[1]>>>>
                  /\ Count(<<"execute", "ok">>) = 1
                  /\ events[Len(events)] = <<"print", "ok">>
                  /\ Before(<<"execute", "ok">>, Len(events))
            /\ (\E i \in 1..Len(events) :
                    events[i][2] \in {"raise", "no_token"} /\ Done) =>
                  /\ stdout = <<>>
                  /\ status = Some(1)
                  /\ raised # None
            /\ (Done /\ status # Some(0)) => stdout = <<>>
            /\ (Done /\ ParsedCommand /\ status = Some(0)) => Cardinality(json) = 1

C10_Witness ==
    /\ Done
    /\ Recognized
    /\ events[Len(events)] = <<"execute", "raise">>
    /\ stdout = <<>>
    /\ status = Some(1)

====
